---- MODULE Spec2Model ----
(***************************************************************************)
(* The ELV tracking backend: the document store with its three             *)
(* collections, the single-record endpoints POST /api/vehicles,            *)
(* POST /api/events, POST /api/parts, served by worker threads one store   *)
(* call per step, GET /api/vehicles, and the offline batch endpoint        *)
(* POST /api/sync, whose loop is modelled one iteration per step.          *)
(***************************************************************************)
EXTENDS Integers, Sequences, FiniteSets, TLC

\* ---------------------------------------------------------------- bounds
MaxBatch == 3      \* longest envelope submitted to /api/sync
MaxDocs == 3       \* documents the store holds at most
MaxClock == 1      \* largest value the server clock reaches

\* ---------------------------------------------------------------- values
\* An Optional field explicitly sent as null; NoneTime is the null of a
\* datetime field, whose other values are instants (integers).
None == "<None>"
NoneTime == -1

\* str(ObjectId): the string form of the n-th store-assigned id.
OidStr == <<"oid1", "oid2", "oid3", "oid4", "oid5", "oid6">>

\* A string that is no ObjectId.
Garbage == "garbage"

\* ObjectId(s): parse a string; 0 stands for bson.errors.InvalidId.
ObjectId(s) ==
    IF \E n \in 1..Len(OidStr) : OidStr[n] = s
    THEN CHOOSE n \in 1..Len(OidStr) : OidStr[n] = s
    ELSE 0

\* schemas.py literals
ConditionLevel == {"good", "fair", "poor", "unknown"}
DamageLevel == {"none", "minor", "moderate", "severe", "unknown"}
VehicleStatus == {"imported", "active", "dismantled", "scrapped", "sold", "unknown"}
PartCondition == {"new", "used", "damaged", "unknown"}
EventType == {"ownership_change", "dismantling", "recycling", "scrap",
              "inspection", "location_update", "note"}

\* dict helpers.  The datetime fields hold instants (integers) or NoneTime,
\* every other field a string.
TimeKeys == {"occurred_at", "updated_at"}
IsNone(d, k) == IF k \in TimeKeys THEN d[k] = NoneTime ELSE d[k] = None
Has(d, k) == k \in DOMAIN d
Get(d, k) == IF k \in DOMAIN d THEN d[k] ELSE None
Truthy(v) == v # None /\ v # ""
Put(d, k, v) == [x \in (DOMAIN d) \cup {k} |-> IF x = k THEN v ELSE d[x]]
SetDefaultOverwrites(d, k, v) == Put(d, k, v)
SetDefault(d, k, v) == IF k \in DOMAIN d THEN d ELSE Put(d, k, v)
ExcludeNone(d) == [x \in {k \in DOMAIN d : ~IsNone(d, k)} |-> d[x]]

\* ---------------------------------------------------------------- state
VARIABLES
    vehicle,    \* collection "vehicle": ObjectId -> document
    event,      \* collection "event"
    part,       \* collection "part"
    now,        \* last value the server clock returned
    pc,         \* the batch or listing being served: "idle"; "sync" at the head
                \* of the loop, "stamped" inside the logEvent branch; "done"
                \* when the handler has returned or raised
    req,        \* that request and the handler's local data
    sorted,     \* sync: the mutations in apply order
    results,    \* sync: the results list so far
    resp,       \* the response to req (status 0 while there is none)
    calls,      \* the store calls req has issued so far, in order
    workers     \* the single-record requests in flight, one per thread

vars == <<vehicle, event, part, now, pc, req, sorted, results, resp, calls, workers>>
store == <<vehicle, event, part>>

\* No request is being served; no response yet.  Two worker threads serve the
\* single-record requests; Idle is a thread without a request.
NoRequest == [kind |-> "none"]
NoResponse == [status |-> 0]
Threads == {1, 2}
Idle == [pc |-> "idle"]

Docs == DOMAIN vehicle \cup DOMAIN event \cup DOMAIN part
NumDocs == Cardinality(Docs)

\* The clock never runs backwards; a read returns now or a later instant.
Ticks == {d \in {0, 1} : now + d <= MaxClock}

\* A store call as the handler sees it: which operation, and whether it raised.
Call(name, failed) == [call |-> name, failed |-> failed]

\* ------------------------------------------------------- store adapter
\* insert(collection, doc) -> id : the collection with doc under a fresh id.
NewId == NumDocs + 1
Insert(coll, doc) == [x \in (DOMAIN coll) \cup {NewId} |-> IF x = NewId THEN doc ELSE coll[x]]

\* update(collection, id, patch): a no-op when no document has that id.
UpdateOneKeepStamp(coll, id, patch) ==
    [x \in DOMAIN coll |->
        IF x = id
        THEN [k \in (DOMAIN coll[x]) \cup (DOMAIN patch) |->
                 IF k \in DOMAIN patch /\ ~(k = "updated_at" /\ k \in DOMAIN coll[x])
                 THEN patch[k] ELSE coll[x][k]]
        ELSE coll[x]]
UpdateOne(coll, id, patch) ==
    [x \in DOMAIN coll |->
        IF x = id
        THEN [k \in (DOMAIN coll[x]) \cup (DOMAIN patch) |->
                 IF k \in DOMAIN patch THEN patch[k] ELSE coll[x][k]]
        ELSE coll[x]]

\* _serialize: the document with its _id surfaced as the string field id.
Serialize(id, doc) == Put(doc, "id", OidStr[id])

\* ---------------------------------------------------------------- inputs
\* Mutations a client may put into an envelope.  client_timestamp is the
\* instant; aware tells whether the parsed datetime carries a UTC offset.
Mut(op, data, t, aware) ==
    [op |-> op, data |-> data, client_id |-> "c1", client_timestamp |-> t, aware |-> aware]

Mutations ==
    { Mut("createVehicle", [vin |-> "X1"], 1, TRUE),
      Mut("createVehicle", [vin |-> "X2", status |-> "bogus"], 2, TRUE),
      Mut("logEvent", [event_type |-> "dismantling", vehicle_id |-> OidStr[1]], 2, TRUE),
      Mut("logEvent", [event_type |-> "note", occurred_at |-> 0], 3, TRUE),
      Mut("registerPart", [name |-> "door"], 2, FALSE),
      Mut("foo", [x |-> "y"], 1, TRUE) }

RECURSIVE SeqsUpTo(_, _)
SeqsUpTo(S, n) ==
    IF n = 0 THEN {<<>>}
    ELSE LET shorter == SeqsUpTo(S, n - 1)
         IN shorter \cup {Append(q, x) : q \in {r \in shorter : Len(r) = n - 1}, x \in S}

Envelopes == SeqsUpTo(Mutations, MaxBatch)

\* --------------------------------------------------------------- sorting
\* The comparison sorted() makes on the keys: a.client_timestamp < b.client_timestamp.
KeyLessEq(a, b) == a.client_timestamp <= b.client_timestamp
KeyLess(a, b) == a.client_timestamp < b.client_timestamp

\* Comparing an offset-naive datetime with an offset-aware one raises TypeError;
\* sorting a list that holds both kinds compares two of them.
SortRaises(env) == \E i, j \in 1..Len(env) : env[i].aware # env[j].aware

\* One insertion of the stable sort: m goes before the first element it is
\* less than, hence after every element with an equal key.
InsertByKey(acc, m) ==
    LET later == {i \in 1..Len(acc) : KeyLess(m, acc[i])}
        pos == IF later = {} THEN Len(acc) + 1
               ELSE CHOOSE i \in later : \A j \in later : i <= j
    IN SubSeq(acc, 1, pos - 1) \o <<m>> \o SubSeq(acc, pos, Len(acc))

SortedAsSubmitted(env) == env
RECURSIVE SortedByTimestamp(_)
SortedByTimestamp(env) ==
    IF env = <<>> THEN <<>>
    ELSE InsertByKey(SortedByTimestamp(SubSeq(env, 1, Len(env) - 1)), env[Len(env)])

\* ------------------------------------------------------------ /api/sync
StoreError == "store unavailable"

\* An exception that leaves a handler: 500 Internal Server Error.
FailedAsOk(e) == [status |-> 200, error |-> e]
Failed(e) == [status |-> 500, error |-> e]

OkFirstId(op, id) == [op |-> op, status |-> "ok", id |-> OidStr[1]]
Ok(op, id) == [op |-> op, status |-> "ok", id |-> OidStr[id]]
Ignored(op) == [op |-> op, status |-> "ignored", reason |-> "unknown op"]
Error(op, e) == [op |-> op, status |-> "error", error |-> e]

\* except Exception as e: the results list with the error result appended.
CaughtDropped(res, op, e) == res
Caught(res, op, e) == Append(res, Error(op, e))

\* The collection an op writes to, "" for an op the dispatch does not know.
CollectionOfElsePart(op) ==
    CASE op = "createVehicle" -> "vehicle"
      [] op = "logEvent" -> "event"
      [] OTHER -> "part"
CollectionOf(op) ==
    CASE op = "createVehicle" -> "vehicle"
      [] op = "logEvent" -> "event"
      [] op = "registerPart" -> "part"
      [] OTHER -> ""

\* create_document(<collection>, data) in a branch of the dispatch: the data
\* is inserted whatever the collection already holds.
SyncWriteUnlessPresent(coll, data) ==
    IF \E x \in DOMAIN coll : coll[x] = data THEN coll ELSE Insert(coll, data)
SyncWrite(coll, data) == Insert(coll, data)

\* The create_document calls that the mutations ms[from], ms[from + 1], ...
\* make: one for each mutation of a known op, none for an unknown op.
Writes(ms, from) == Cardinality({i \in from..Len(ms) : CollectionOf(ms[i].op) # ""})

\* The create_document calls that the requests in flight have still to make,
\* and whether the store has room for n more documents.
Pending ==
    Cardinality({w \in Threads : workers[w].pc = "insert"})
    + (IF pc \in {"sync", "stamped"} THEN Writes(sorted, Len(results) + 1) ELSE 0)
Room(n) == NumDocs + Pending + n <= MaxDocs


\* sync, up to the loop: the envelope is sorted; a TypeError from the sort is
\* outside the try and fails the request before any store call, so only a
\* batch that enters the loop needs room for its documents.
SyncStart(env) ==
    /\ pc = "idle"
    /\ Len(env) <= MaxBatch
    /\ req' = [kind |-> "sync", mutations |-> env, start |-> now]
    /\ results' = <<>>
    /\ \/ /\ SortRaises(env)
          /\ sorted' = <<>>
          /\ resp' = Failed("TypeError")
          /\ pc' = "done"
       \/ /\ ~SortRaises(env)
          /\ Room(Writes(env, 1))
          /\ sorted' = SortedByTimestamp(env)
          /\ resp' = NoResponse
          /\ pc' = "sync"
    /\ calls' = <<>>
    /\ UNCHANGED <<vehicle, event, part, now, workers>>

\* The logEvent branch, before its store call:
\* data.setdefault("occurred_at", datetime.now(timezone.utc)).
SyncStamp(d) ==
    /\ pc = "sync"
    /\ Len(results) < Len(sorted)
    /\ sorted[Len(results) + 1].op = "logEvent"
    /\ now' = now + d
    /\ req' = Put(req, "data", SetDefault(sorted[Len(results) + 1].data, "occurred_at", now + d))
    /\ pc' = "stamped"
    /\ UNCHANGED <<vehicle, event, part, sorted, results, resp, calls, workers>>

\* The rest of one iteration of the loop: dispatch on op; an exception of the
\* store call becomes an error result.
SyncApply(fail) ==
    /\ Len(results) < Len(sorted)
    /\ LET m == sorted[Len(results) + 1]
           op == m.op
           coll == CollectionOf(op)
           data == IF pc = "stamped" THEN req.data ELSE m.data
       IN /\ IF op = "logEvent" THEN pc = "stamped" ELSE pc = "sync"
          /\ (coll = "") => ~fail
          /\ IF coll = "" THEN
                /\ results' = Append(results, Ignored(op))
                /\ UNCHANGED <<vehicle, event, part, sorted, calls>>
             ELSE IF fail THEN
                /\ results' = Caught(results, op, StoreError)
                /\ calls' = Append(calls, Call("insert", TRUE))
                /\ UNCHANGED <<vehicle, event, part, sorted>>
             ELSE
                /\ results' = Append(results, Ok(op, NewId))
                /\ calls' = Append(calls, Call("insert", FALSE))
                /\ vehicle' = IF coll = "vehicle" THEN SyncWrite(vehicle, data) ELSE vehicle
                /\ event' = IF coll = "event" THEN SyncWrite(event, data) ELSE event
                /\ part' = IF coll = "part" THEN SyncWrite(part, data) ELSE part
                /\ UNCHANGED sorted
    /\ pc' = "sync"
    /\ req' = [k \in DOMAIN req \ {"data"} |-> req[k]]
    /\ UNCHANGED <<now, resp, workers>>

\* The loop is over: the results and the server's time are returned.
SyncReturn(d) ==
    /\ pc = "sync"
    /\ Len(results) = Len(sorted)
    /\ now' = now + d
    /\ resp' = [status |-> 200, results |-> results, server_time |-> now + d]
    /\ pc' = "done"
    /\ UNCHANGED <<vehicle, event, part, req, sorted, results, calls, workers>>

\* ------------------------------------------------- single-record requests
\* The handlers of POST /api/vehicles, /api/events and /api/parts are plain
\* functions that the server runs in worker threads: each request runs in its
\* own thread, one store call or clock read per step, and the steps of
\* requests in flight interleave.  A thread's record holds the handler's
\* locals; solo tells that no other such request was in flight while this one
\* was (the request was served alone).
NoPatch == [k \in {} |-> 0]
NoDoc == [k \in {} |-> ""]
Others(w) == Threads \ {w}
Free(w) == workers[w].pc = "idle" /\ \A x \in 1..(w - 1) : workers[x].pc # "idle"
Request(w, kind, payload, data) ==
    [kind |-> kind, pc |-> "insert", payload |-> payload, data |-> data, id |-> 0,
     ev |-> NoDoc, patch |-> NoPatch, resp |-> NoResponse, calls |-> <<>>,
     start |-> now, solo |-> \A x \in Others(w) : workers[x].pc = "idle"]

\* Thread w takes the request r; the requests in flight are no longer alone.
Begin(w, r) ==
    [x \in Threads |->
        IF x = w THEN r
        ELSE IF workers[x].pc = "idle" THEN workers[x]
        ELSE [workers[x] EXCEPT !.solo = FALSE]]

\* The handler of thread w returns body, or raises e.
Return(w, call, body) ==
    [workers EXCEPT ![w].pc = "done", ![w].calls = Append(@, call),
                    ![w].resp = [status |-> 200, body |-> body]]
Raise(w, call, e) ==
    [workers EXCEPT ![w].pc = "done", ![w].calls = Append(@, call), ![w].resp = Failed(e)]

\* ------------------------------------------------------- /api/vehicles
\* CreateVehiclePayload: the defaults of its fields.
VehicleDefaults ==
    [engine_condition |-> "unknown", body_condition |-> "unknown",
     damage_level |-> "unknown", status |-> "unknown"]

\* payload.model_dump(exclude_none=True): defaults for absent fields, then
\* every field that is None is left out.
ModelDump(payload, defaults) ==
    ExcludeNone([k \in (DOMAIN payload) \cup (DOMAIN defaults) |->
                    IF k \in DOMAIN payload THEN payload[k] ELSE defaults[k]])

\* A field the payload class declares without Optional and without a
\* default: the body must carry it, and not as null.
Required(payload, k) == Has(payload, k) /\ payload[k] # None

VehiclePayloads ==
    { [vin |-> "X1"],
      [vin |-> "X1", status |-> "bogus"],
      [vin |-> "X1", status |-> None] }

\* data = payload.model_dump(exclude_none=True); create_document("vehicle", data)
create_vehicle(w, payload, fail) ==
    /\ w \in Threads /\ Free(w)
    /\ fail \/ Room(1)
    /\ LET data == ModelDump(payload, VehicleDefaults)
           r == Request(w, "create_vehicle", payload, data)
       IN IF fail THEN
             /\ workers' = Begin(w, [r EXCEPT !.pc = "done", !.resp = Failed(StoreError),
                                              !.calls = <<Call("insert", TRUE)>>])
             /\ UNCHANGED vehicle
          ELSE
             /\ vehicle' = Insert(vehicle, data)
             /\ workers' = Begin(w, [r EXCEPT !.pc = "find", !.id = NewId,
                                              !.calls = <<Call("insert", FALSE)>>])
    /\ UNCHANGED <<event, part, now, pc, req, sorted, results, resp, calls>>

\* doc = db["vehicle"].find_one({"_id": ObjectId(inserted_id)}); return _serialize(doc)
create_vehicle_find(w, fail) ==
    /\ w \in Threads
    /\ workers[w].pc = "find" /\ workers[w].kind = "create_vehicle"
    /\ workers' = IF fail THEN Raise(w, Call("find_one", TRUE), StoreError)
                  ELSE Return(w, Call("find_one", FALSE),
                              Serialize(workers[w].id, vehicle[workers[w].id]))
    /\ UNCHANGED <<vehicle, event, part, now, pc, req, sorted, results, resp, calls>>

\* GET /api/vehicles: limit: int = Query(50, ge=1, le=200).
DefaultLimit == 50
MinLimit == 1
MaxLimit == 200
LimitOkNoCeiling(l) == MinLimit <= l
LimitOk(l) == MinLimit <= l /\ l <= MaxLimit

\* find_many(collection, filter, limit) -> seq<doc>: the ids, in insertion
\* order, of the first limit documents that carry every pair of the filter.
Matches(doc, filt) == \A k \in DOMAIN filt : Has(doc, k) /\ doc[k] = filt[k]
RECURSIVE FindFrom(_, _, _, _)
FindFrom(coll, filt, lim, id) ==
    IF lim = 0 \/ id > NumDocs THEN <<>>
    ELSE IF id \in DOMAIN coll /\ Matches(coll[id], filt)
         THEN <<id>> \o FindFrom(coll, filt, lim - 1, id + 1)
         ELSE FindFrom(coll, filt, lim, id + 1)
GetDocuments(coll, filt, lim) == FindFrom(coll, filt, lim, 1)

\* The read as the handler issues it.
FindCall(filt, lim, failed) ==
    [call |-> "find_many", failed |-> failed, filter |-> filt, limit |-> lim]

\* Query strings: status absent, empty or set; limit absent (given = FALSE) or set.
StatusQueries == {None, "", "unknown", "bogus"}
LimitQueries == {0, 1, 2, 200, 201, 500}
NoFilter == [k \in {} |-> ""]

list_vehicles(status, given, limit, fail) ==
    /\ pc = "idle"
    /\ ~given => limit = 0
    /\ req' = [kind |-> "list_vehicles", status |-> status, given |-> given,
               limit |-> limit, start |-> now]
    /\ LET lim == IF given THEN limit ELSE DefaultLimit
           filt == IF Truthy(status) THEN [status |-> status] ELSE NoFilter
       IN IF ~LimitOk(lim) THEN
             \* the query parameter is out of range: rejected before the handler runs
             /\ ~fail
             /\ resp' = [status |-> 422]
             /\ calls' = <<>>
          ELSE
             /\ calls' = <<FindCall(filt, lim, fail)>>
             /\ resp' = IF fail THEN Failed(StoreError)
                        ELSE LET ids == GetDocuments(vehicle, filt, lim)
                             IN [status |-> 200,
                                 body |-> [i \in 1..Len(ids) |-> Serialize(ids[i], vehicle[ids[i]])]]
    /\ pc' = "done"
    /\ UNCHANGED <<vehicle, event, part, now, sorted, results, workers>>


\* ---------------------------------------------------------- /api/parts
PartDefaults == [condition |-> "unknown"]

PartPayloads ==
    { [name |-> "door"],
      [name |-> "door", condition |-> "rusty"],
      [condition |-> "used"] }

\* The request is validated (name is required: a body without it, or with
\* null for it, is answered 422 before the handler runs), then
\* data = payload.model_dump(exclude_none=True); create_document("part", data)
register_part(w, payload, fail) ==
    /\ w \in Threads /\ Free(w)
    /\ LET data == ModelDump(payload, PartDefaults)
           r == Request(w, "register_part", payload, data)
       IN IF ~Required(payload, "name") THEN
             /\ ~fail
             /\ workers' = Begin(w, [r EXCEPT !.data = payload, !.pc = "done",
                                              !.resp = [status |-> 422]])
             /\ UNCHANGED part
          ELSE IF fail THEN
             /\ workers' = Begin(w, [r EXCEPT !.pc = "done", !.resp = Failed(StoreError),
                                              !.calls = <<Call("insert", TRUE)>>])
             /\ UNCHANGED part
          ELSE
             /\ Room(1)
             /\ part' = Insert(part, data)
             /\ workers' = Begin(w, [r EXCEPT !.pc = "find", !.id = NewId,
                                              !.calls = <<Call("insert", FALSE)>>])
    /\ UNCHANGED <<vehicle, event, now, pc, req, sorted, results, resp, calls>>

\* doc = db["part"].find_one({"_id": ObjectId(inserted_id)}); return _serialize(doc)
register_part_find(w, fail) ==
    /\ w \in Threads
    /\ workers[w].pc = "find" /\ workers[w].kind = "register_part"
    /\ workers' = IF fail THEN Raise(w, Call("find_one", TRUE), StoreError)
                  ELSE Return(w, Call("find_one", FALSE),
                              Serialize(workers[w].id, part[workers[w].id]))
    /\ UNCHANGED <<vehicle, event, part, now, pc, req, sorted, results, resp, calls>>

\* --------------------------------------------------------- /api/events
\* The event types that trigger the vehicle status update, and the status set.
RuleEvents == {"dismantling", "scrap"}
RuleStatusSwapped(event_type) == IF event_type = "dismantling" THEN "scrapped" ELSE "dismantled"
RuleStatus(event_type) == IF event_type = "dismantling" THEN "dismantled" ELSE "scrapped"

\* {"$set": {"status": ..., "updated_at": datetime.now(timezone.utc)}}
RulePatchStartupTime(event_type, t) == [status |-> RuleStatus(event_type), updated_at |-> 0]
RulePatch(event_type, t) == [status |-> RuleStatus(event_type), updated_at |-> t]

\* db["vehicle"].update_one: the collection the rule writes to.
RuleTargetEvent == "event"
RuleTarget == "vehicle"

\* if data.get("vehicle_id") and data.get("event_type") in {...}
RuleAppliesAlways(data) == Truthy(Get(data, "vehicle_id"))
RuleApplies(data) ==
    /\ Truthy(Get(data, "vehicle_id"))
    /\ Get(data, "event_type") \in RuleEvents

EventPayloads ==
    { [event_type |-> "dismantling", vehicle_id |-> OidStr[1]],
      [event_type |-> "scrap", vehicle_id |-> OidStr[1]],
      [event_type |-> "note", vehicle_id |-> OidStr[1], occurred_at |-> NoneTime],
      [event_type |-> "dismantling"],
      [event_type |-> "dismantling", vehicle_id |-> Garbage],
      [notes |-> "no type"],
      [event_type |-> None, notes |-> "x"] }

\* The request is validated (event_type is required: a body without it, or
\* with null for it, is answered 422 before the handler runs), then
\* data = payload.model_dump(exclude_none=True);
\* data.setdefault("occurred_at", datetime.now(timezone.utc)): the clock is
\* read whether or not occurred_at is there.
log_event(w, payload, d) ==
    /\ w \in Threads /\ Free(w)
    /\ IF ~Required(payload, "event_type") THEN
          /\ d = 0
          /\ workers' = Begin(w, [Request(w, "log_event", payload, payload) EXCEPT
                                     !.pc = "done", !.resp = [status |-> 422]])
          /\ UNCHANGED now
       ELSE
          /\ Room(1)
          /\ now' = now + d
          /\ workers' = Begin(w, Request(w, "log_event", payload,
                                   SetDefault(ExcludeNone(payload), "occurred_at", now + d)))
    /\ UNCHANGED <<vehicle, event, part, pc, req, sorted, results, resp, calls>>

\* inserted_id = create_document("event", data)
LogInsert(w, fail) ==
    /\ w \in Threads
    /\ workers[w].pc = "insert" /\ workers[w].kind = "log_event"
    /\ IF fail THEN
          /\ workers' = Raise(w, Call("insert", TRUE), StoreError)
          /\ UNCHANGED event
       ELSE
          /\ event' = Insert(event, workers[w].data)
          /\ workers' = [workers EXCEPT ![w].pc = "find", ![w].id = NewId,
                                        ![w].calls = Append(@, Call("insert", FALSE))]
    /\ UNCHANGED <<vehicle, part, now, pc, req, sorted, results, resp, calls>>

\* ev = db["event"].find_one(...), then the rule's condition and, when it
\* holds, ObjectId(data["vehicle_id"]), which raises InvalidId on a string
\* that is no id; without the rule the handler returns _serialize(ev).
LogFind(w, fail) ==
    /\ w \in Threads
    /\ workers[w].pc = "find" /\ workers[w].kind = "log_event"
    /\ LET ev == event[workers[w].id]
           data == workers[w].data
       IN workers' =
             IF fail THEN Raise(w, Call("find_one", TRUE), StoreError)
             ELSE IF ~RuleApplies(data)
                  THEN Return(w, Call("find_one", FALSE), Serialize(workers[w].id, ev))
             ELSE IF ObjectId(data.vehicle_id) = 0
                  THEN Raise(w, Call("find_one", FALSE), "InvalidId")
             ELSE [workers EXCEPT ![w].pc = "stamp", ![w].ev = ev,
                                  ![w].calls = Append(@, Call("find_one", FALSE))]
    /\ UNCHANGED <<vehicle, event, part, now, pc, req, sorted, results, resp, calls>>

\* The $set document is built, with the clock's value, before update_one is called.
LogStamp(w, d) ==
    /\ w \in Threads
    /\ workers[w].pc = "stamp"
    /\ now' = now + d
    /\ workers' = [workers EXCEPT ![w].pc = "update",
                                  ![w].patch = RulePatch(workers[w].data.event_type, now + d)]
    /\ UNCHANGED <<vehicle, event, part, pc, req, sorted, results, resp, calls>>

\* update_one: the store applies the whole $set to the document at once; then
\* return _serialize(ev).
LogUpdate(w, fail) ==
    /\ w \in Threads
    /\ workers[w].pc = "update"
    /\ LET oid == ObjectId(workers[w].data.vehicle_id)
       IN IF fail THEN
             /\ workers' = Raise(w, Call("update_one", TRUE), StoreError)
             /\ UNCHANGED <<vehicle, event>>
          ELSE
             /\ vehicle' = IF RuleTarget = "vehicle"
                           THEN UpdateOne(vehicle, oid, workers[w].patch) ELSE vehicle
             /\ event' = IF RuleTarget = "event"
                         THEN UpdateOne(event, oid, workers[w].patch) ELSE event
             /\ workers' = Return(w, Call("update_one", FALSE),
                                  Serialize(workers[w].id, workers[w].ev))
    /\ UNCHANGED <<part, now, pc, req, sorted, results, resp, calls>>

\* The response of thread w is sent and its locals are gone.
Respond(w) ==
    /\ w \in Threads
    /\ workers[w].pc = "done"
    /\ workers' = [workers EXCEPT ![w] = Idle]
    /\ UNCHANGED <<vehicle, event, part, now, pc, req, sorted, results, resp, calls>>

\* The response of a batch or of a listing is sent and the handler's locals
\* are gone: nothing but the store and the clock lives on between requests.
Reply ==
    /\ pc = "done"
    /\ pc' = "idle"
    /\ req' = NoRequest
    /\ resp' = NoResponse
    /\ sorted' = <<>>
    /\ results' = <<>>
    /\ calls' = <<>>
    /\ UNCHANGED <<vehicle, event, part, now, workers>>

\* ------------------------------------------------------------ behaviours
Init ==
    /\ vehicle = [x \in {} |-> 0]
    /\ event = [x \in {} |-> 0]
    /\ part = [x \in {} |-> 0]
    /\ now = 0
    /\ pc = "idle"
    /\ req = NoRequest
    /\ sorted = <<>>
    /\ results = <<>>
    /\ resp = NoResponse
    /\ calls = <<>>
    /\ workers = [w \in Threads |-> Idle]

\* POST /api/sync, one batch after another.
NextSync ==
    \/ \E env \in Envelopes : SyncStart(env)
    \/ \E d \in Ticks : SyncStamp(d)
    \/ \E fail \in BOOLEAN : SyncApply(fail)
    \/ \E d \in Ticks : SyncReturn(d)
    \/ Reply

\* Batches of mutations that pass the sort and carry no status: a vehicle,
\* an event without and one with occurred_at, and an unknown op.
BatchMutations == { m \in Mutations : m.aware /\ ~Has(m.data, "status") }
BatchEnvelopes == SeqsUpTo(BatchMutations, MaxBatch)
NextBatch ==
    \/ \E env \in BatchEnvelopes : SyncStart(env)
    \/ \E d \in Ticks : SyncStamp(d)
    \/ \E fail \in BOOLEAN : SyncApply(fail)
    \/ \E d \in Ticks : SyncReturn(d)
    \/ Reply

\* The steps of the requests in flight, whatever was sent.
Steps ==
    \/ \E w \in Threads, fail \in BOOLEAN : create_vehicle_find(w, fail)
    \/ \E w \in Threads, fail \in BOOLEAN : register_part_find(w, fail)
    \/ \E w \in Threads, fail \in BOOLEAN : LogInsert(w, fail)
    \/ \E w \in Threads, fail \in BOOLEAN : LogFind(w, fail)
    \/ \E w \in Threads, d \in Ticks : LogStamp(w, d)
    \/ \E w \in Threads, fail \in BOOLEAN : LogUpdate(w, fail)
    \/ \E w \in Threads : Respond(w)

\* The single-record endpoints, two requests at a time, the store failing or
\* not: among the events, one that triggers the status update and every one
\* that cannot (no reference, a malformed one, no event_type, a null one).
ApiEvents ==
    { p \in EventPayloads :
         Get(p, "vehicle_id") = OidStr[1] => Get(p, "event_type") = "dismantling" }
NextApi ==
    \/ \E w \in Threads, p \in VehiclePayloads, fail \in BOOLEAN : create_vehicle(w, p, fail)
    \/ \E w \in Threads, p \in ApiEvents, d \in Ticks : log_event(w, p, d)
    \/ \E w \in Threads, p \in PartPayloads, fail \in BOOLEAN : register_part(w, p, fail)
    \/ Steps

\* Events logged side by side for a vehicle that POST /api/vehicles has
\* stored, the store being available: a dismantling event, a scrap event and
\* an event of another type.
ConcEvents ==
    { p \in EventPayloads : Required(p, "event_type") /\ Get(p, "vehicle_id") = OidStr[1] }
NextConc ==
    \/ \E w \in Threads : create_vehicle(w, [vin |-> "X1"], FALSE)
    \/ \E w \in Threads, p \in ConcEvents, d \in Ticks : log_event(w, p, d)
    \/ \E w \in Threads : create_vehicle_find(w, FALSE)
    \/ \E w \in Threads : LogInsert(w, FALSE)
    \/ \E w \in Threads : LogFind(w, FALSE)
    \/ \E w \in Threads, d \in Ticks : LogStamp(w, d)
    \/ \E w \in Threads : LogUpdate(w, FALSE)
    \/ \E w \in Threads : Respond(w)

\* Batches and single-record requests against one store that may fail:
\* batches of several logEvent mutations, and beside them one request at a
\* time that creates a vehicle, logs a scrap event for the first document, or
\* registers a part.
MixedMutations == { m \in Mutations : m.op = "logEvent" /\ Has(m.data, "vehicle_id") }
MixedEnvelopes == SeqsUpTo(MixedMutations, MaxBatch - 1)
MixedEvents == { p \in ConcEvents : p.event_type = "scrap" }

NextMixed ==
    \/ \E env \in MixedEnvelopes : SyncStart(env)
    \/ \E d \in Ticks : SyncStamp(d)
    \/ \E fail \in BOOLEAN : SyncApply(fail)
    \/ \E d \in Ticks : SyncReturn(d)
    \/ Reply
    \/ \E fail \in BOOLEAN : create_vehicle(1, [vin |-> "X1"], fail)
    \/ \E p \in MixedEvents, d \in Ticks : log_event(1, p, d)
    \/ \E fail \in BOOLEAN : register_part(1, [name |-> "door"], fail)
    \/ Steps

\* Listing the vehicles that POST /api/vehicles has stored.
NextList ==
    \/ \E w \in Threads, p \in VehiclePayloads, fail \in BOOLEAN : create_vehicle(w, p, fail)
    \/ \E w \in Threads, fail \in BOOLEAN : create_vehicle_find(w, fail)
    \/ \E w \in Threads : Respond(w)
    \/ \E st \in StatusQueries, given \in BOOLEAN, l \in LimitQueries, fail \in BOOLEAN :
          list_vehicles(st, given, l, fail)
    \/ Reply

Next ==
    \/ NextSync
    \/ NextApi
    \/ \E st \in StatusQueries, given \in BOOLEAN, l \in LimitQueries, fail \in BOOLEAN :
          list_vehicles(st, given, l, fail)

SpecSync == Init /\ [][NextSync]_vars
SpecBatch == Init /\ [][NextBatch]_vars
SpecApi == Init /\ [][NextApi]_vars
SpecList == Init /\ [][NextList]_vars
SpecConc == Init /\ [][NextConc]_vars
SpecMixed == Init /\ [][NextMixed]_vars
Spec == Init /\ [][Next]_vars

\* ================================================================ claims
SyncDone == req.kind = "sync" /\ pc = "done" /\ resp.status = 200
InLoop == pc \in {"sync", "stamped"}
Stamp(m) == m.client_timestamp
Perms(n) == {p \in [1..n -> 1..n] : \A i, j \in 1..n : p[i] = p[j] => i = j}
Permuted(s, p) == [i \in 1..Len(s) |-> s[p[i]]]
OidOf(r) == ObjectId(r.id)

\* C1: the apply order of a batch is a stable ascending sort of the envelope by
\* client_timestamp: it is a rearrangement of the envelope with non-decreasing
\* timestamps in which mutations of equal timestamp keep their envelope order;
\* the i-th result belongs to the i-th mutation of that order, and documents
\* are written (ids assigned) in that order.
C1_StableAscendingOrder ==
    (req.kind = "sync" /\ (InLoop \/ resp.status = 200)) =>
        LET env == req.mutations
            n == Len(env)
        IN /\ Len(sorted) = n
           /\ \E p \in Perms(n) :
                 /\ \A i \in 1..n : sorted[i] = env[p[i]]
                 /\ \A i, j \in 1..n :
                       i < j => /\ Stamp(sorted[i]) <= Stamp(sorted[j])
                                /\ Stamp(sorted[i]) = Stamp(sorted[j]) => p[i] < p[j]
           /\ \A i \in 1..Len(results) : results[i].op = sorted[i].op
           /\ \A i, j \in 1..Len(results) :
                 (i < j /\ results[i].status = "ok" /\ results[j].status = "ok")
                    => OidOf(results[i]) < OidOf(results[j])

\* C1 witness: a returned batch whose envelope held two different mutations of
\* equal timestamp and a later-stamped mutation ahead of an earlier one.
C1_Witness ==
    /\ SyncDone
    /\ \E i, j \in 1..Len(req.mutations) :
          i < j /\ Stamp(req.mutations[i]) = Stamp(req.mutations[j])
                /\ req.mutations[i].op # req.mutations[j].op
    /\ \E i, j \in 1..Len(req.mutations) :
          i < j /\ Stamp(req.mutations[i]) > Stamp(req.mutations[j])
    /\ \E i, j \in 1..Len(results) :
          i < j /\ results[i].status = "ok" /\ results[j].status = "ok"

\* C2: in the sync loop a failed store call never aborts the batch: every
\* iteration, after the clock read of a logEvent, appends exactly one result
\* and leaves the request in its loop with the apply order untouched; an
\* iteration for a known op that wrote nothing appended an "error" result
\* carrying a message; and when the loop is over the request returns 200 with
\* one result per submitted mutation.
C2_FailureDoesNotAbort ==
    [][ InLoop =>
          IF Len(results) < Len(sorted) THEN
             LET m == sorted[Len(results) + 1]
             IN \/ /\ pc = "sync" /\ pc' = "stamped" /\ m.op = "logEvent"
                   /\ results' = results /\ sorted' = sorted /\ resp' = resp
                   /\ store' = store
                \/ /\ pc' = "sync" /\ resp' = resp /\ sorted' = sorted
                   /\ Len(results') = Len(results) + 1
                   /\ SubSeq(results', 1, Len(results)) = results
                   /\ (CollectionOf(m.op) # "" /\ store' = store) =>
                         LET r == results'[Len(results')]
                         IN r.status = "error" /\ r.op = m.op /\ r.error # ""
          ELSE /\ resp'.status = 200
               /\ resp'.results = results
               /\ Len(results) = Len(req.mutations) ]_vars

\* C2 witness: a returned batch with an error result followed by an ok result
\* and a second error result.
C2_Witness ==
    /\ SyncDone
    /\ \E i, j, k \in 1..Len(results) :
          /\ i < j /\ k # i
          /\ results[i].status = "error"
          /\ results[j].status = "ok"
          /\ results[k].status = "error"

\* C3: a mutation with an op other than createVehicle, logEvent, registerPart
\* gets an "ignored" result with a reason, writes nothing and leaves the batch
\* in its loop; no result for such an op is ever "error" or "ok"; and in a
\* returned batch every mutation with a known op has its own ok/error result.
KnownOps == {"createVehicle", "logEvent", "registerPart"}
C3_UnknownOpIgnored ==
    /\ [][ (pc = "sync" /\ Len(results) < Len(sorted)
              /\ sorted[Len(results) + 1].op \notin KnownOps) =>
             /\ results' = Append(results,
                    [op |-> sorted[Len(results) + 1].op, status |-> "ignored",
                     reason |-> "unknown op"])
             /\ store' = store
             /\ pc' = "sync" /\ resp' = resp ]_vars
    /\ [](\A i \in 1..Len(results) :
             IF sorted[i].op \in KnownOps
             THEN results[i].status \in {"ok", "error"}
             ELSE results[i].status = "ignored" /\ results[i].reason # "")
    /\ [](SyncDone => Len(results) = Len(req.mutations))

\* C3 witness: a returned batch in which an unknown op was ignored and a
\* mutation applied after it was written to the store.
C3_Witness ==
    /\ SyncDone
    /\ \E i, j \in 1..Len(results) :
          /\ i < j
          /\ sorted[i].op = "foo" /\ results[i].status = "ignored"
          /\ results[j].status = "ok" /\ OidOf(results[j]) \in Docs

\* C4: every POST /sync request that has been answered returned 200 with a
\* full result list: one result per submitted mutation, the i-th carrying the op
\* of the i-th mutation in timestamp order, each exactly one of ok with an id,
\* ignored with a reason, error with a message.
ResultShapes ==
    {{"op", "status", "id"}, {"op", "status", "reason"}, {"op", "status", "error"}}
C4_AlwaysFullResultList ==
    (req.kind = "sync" /\ pc = "done") =>
        /\ resp.status = 200
        /\ Len(resp.results) = Len(req.mutations)
        /\ \A i \in 1..Len(resp.results) :
              LET r == resp.results[i]
              IN /\ r.op = sorted[i].op
                 /\ DOMAIN r \in ResultShapes
                 /\ r.status = "ok" <=> Has(r, "id")
                 /\ r.status = "ignored" <=> Has(r, "reason")
                 /\ r.status = "error" <=> Has(r, "error")

\* A mutation whose data holds an enumerated field with a value outside the
\* set schemas.py gives for it; the Optional fields of Vehicle admit null.
OutOfEnum(d, k, S) == Has(d, k) /\ d[k] \notin S
OptionalOutOfEnum(d, k, S) == Has(d, k) /\ d[k] # None /\ d[k] \notin S
InvalidEnum(m) ==
    CASE m.op = "createVehicle" ->
            \/ OutOfEnum(m.data, "status", VehicleStatus)
            \/ OptionalOutOfEnum(m.data, "engine_condition", ConditionLevel)
            \/ OptionalOutOfEnum(m.data, "body_condition", ConditionLevel)
            \/ OptionalOutOfEnum(m.data, "damage_level", DamageLevel)
      [] m.op = "logEvent" -> OutOfEnum(m.data, "event_type", EventType)
      [] m.op = "registerPart" -> OutOfEnum(m.data, "condition", PartCondition)
      [] OTHER -> FALSE

\* C5: in a returned batch of three mutations of which exactly one has an
\* out-of-enum value, that mutation's result is "error", the two others are
\* not rejected as invalid, and no stored vehicle carries the invalid value.
C5_InvalidEnumIsError ==
    (SyncDone /\ Len(sorted) = 3
       /\ Cardinality({i \in 1..3 : InvalidEnum(sorted[i])}) = 1) =>
        /\ \A i \in 1..3 : InvalidEnum(sorted[i]) => results[i].status = "error"
        /\ Cardinality({i \in 1..3 : results[i].status = "error"}) >= 1
        /\ \A v \in DOMAIN vehicle : ~OutOfEnum(vehicle[v], "status", VehicleStatus)

\* C6: in a returned batch, a logEvent of type dismantling (scrap) that was
\* stored and whose vehicle_id names a vehicle that existed when it was applied
\* leaves that vehicle with status "dismantled" ("scrapped").
C6_SyncAppliesRule ==
    SyncDone =>
        \A j \in 1..Len(results) :
            LET m == sorted[j]
                v == ObjectId(Get(m.data, "vehicle_id"))
            IN (/\ m.op = "logEvent" /\ results[j].status = "ok"
                /\ Get(m.data, "event_type") = "dismantling"
                /\ v \in DOMAIN vehicle /\ v < OidOf(results[j]))
               => Get(vehicle[v], "status") = "dismantled"

\* C10 as claimed: whatever the order of the envelope, the apply order (and so
\* the operations on the store and the results) is the same.
C10_AnyPermutationSameOrder ==
    (req.kind = "sync" /\ pc = "sync") =>
        \A p \in Perms(Len(req.mutations)) :
            SortedByTimestamp(Permuted(req.mutations, p)) = sorted

\* C10 amended: every rearrangement of the envelope that keeps the relative
\* order of the mutations with equal client_timestamp has the same apply order.
KeepsTies(env, p) ==
    \A i, j \in 1..Len(env) :
        (i < j /\ Stamp(env[p[i]]) = Stamp(env[p[j]])) => p[i] < p[j]
C10_TiePreservingPermutationSameOrder ==
    (req.kind = "sync" /\ pc = "sync") =>
        \A p \in Perms(Len(req.mutations)) :
            KeepsTies(req.mutations, p) =>
                SortedByTimestamp(Permuted(req.mutations, p)) = sorted

\* C10 witness: a batch in its loop whose envelope was out of timestamp order
\* and held a tie, so that it has a tie-keeping rearrangement other than itself.
C10_Witness ==
    /\ req.kind = "sync" /\ pc = "sync"
    /\ sorted # req.mutations
    /\ \E i, j \in 1..Len(sorted) : i < j /\ Stamp(sorted[i]) = Stamp(sorted[j])
                                          /\ sorted[i] # sorted[j]
    /\ \E p \in Perms(Len(req.mutations)) :
          /\ KeepsTies(req.mutations, p)
          /\ Permuted(req.mutations, p) # req.mutations

\* ------------------------------------------- single-record requests
\* The request thread w is serving has passed validation of POST /events; the
\* vehicle its payload refers to; the status the rule table maps its type to.
EventServed(r) == r.kind = "log_event" /\ Required(r.payload, "event_type")
RefOf(r) == ObjectId(Get(r.payload, "vehicle_id"))
Mapped(t) == IF t = "dismantling" THEN "dismantled" ELSE "scrapped"

\* Thread w makes the step; the request that step belongs to.
Stepped(w) == workers'[w].pc # workers[w].pc
Actor(w) == IF workers[w].pc = "idle" THEN workers'[w] ELSE workers[w]

\* Thread w has answered; it has answered 200.
Done(w) == workers[w].pc = "done"
Answered(w) == Done(w) /\ workers[w].resp.status = 200

\* The step in which the store applies the status update of thread w.
RuleUpdate(w) ==
    /\ workers[w].pc = "update"
    /\ workers'[w].pc = "done" /\ workers'[w].resp.status = 200

\* C7: the status update of a POST /events for a dismantling (scrap) event
\* whose vehicle_id names an existing vehicle leaves that vehicle with status
\* "dismantled" ("scrapped") and every other vehicle document as it was; no
\* other step of such a request, and no step of a request for any other
\* event_type, changes a vehicle document; and when the request was served
\* alone and returns 200, the vehicle has the mapped status.
C7_EventRuleTable ==
    /\ [][ \A w \in Threads :
             (Stepped(w) /\ EventServed(Actor(w))) =>
                LET t == Actor(w).payload.event_type
                    v == RefOf(Actor(w))
                IN IF t \in {"dismantling", "scrap"} /\ v \in DOMAIN vehicle /\ RuleUpdate(w)
                   THEN /\ DOMAIN vehicle' = DOMAIN vehicle
                        /\ vehicle'[v].status = Mapped(t)
                        /\ \A x \in DOMAIN vehicle : x # v => vehicle'[x] = vehicle[x]
                   ELSE vehicle' = vehicle ]_vars
    /\ [](\A w \in Threads :
             (/\ Answered(w) /\ EventServed(workers[w]) /\ workers[w].solo
              /\ workers[w].payload.event_type \in {"dismantling", "scrap"}
              /\ RefOf(workers[w]) \in DOMAIN vehicle)
             => vehicle[RefOf(workers[w])].status = Mapped(workers[w].payload.event_type))

\* C7 witness: POST /events, served alone, returned 200 for a scrap event on
\* an existing vehicle that had been dismantled before, and the vehicle is
\* now scrapped.
C7_Witness ==
    \E w \in Threads :
        /\ Answered(w) /\ EventServed(workers[w]) /\ workers[w].solo
        /\ workers[w].payload.event_type = "scrap"
        /\ RefOf(workers[w]) \in DOMAIN vehicle
        /\ vehicle[RefOf(workers[w])].status = "scrapped"
        /\ \E e \in DOMAIN event :
              /\ e < workers[w].id
              /\ event[e].event_type = "dismantling"
              /\ Get(event[e], "vehicle_id") = workers[w].payload.vehicle_id

\* C8: a dismantling or scrap event without a vehicle reference, or with one
\* that names no existing vehicle (unknown or malformed id), is answered with
\* 200 unless the store failed, is recorded, and changes no vehicle.
C8_UnresolvedRuleSkipped ==
    \A w \in Threads :
        (/\ Done(w) /\ EventServed(workers[w])
         /\ workers[w].payload.event_type \in {"dismantling", "scrap"}
         /\ RefOf(workers[w]) \notin DOMAIN vehicle)
        => \/ /\ workers[w].resp.status = 200
              /\ workers[w].id \in DOMAIN event
           \/ /\ workers[w].resp.status = 500
              /\ workers[w].resp.error = StoreError

\* C9: when the status update of a dismantling event, whose request is served
\* alone, is applied to a vehicle that an earlier dismantling event already
\* left dismantled (status "dismantled", updated_at stamped), the vehicle
\* stays dismantled, no vehicle document is added or removed, no other field
\* changes, and updated_at becomes the stamp of this event, which is not
\* earlier than the stamp the first one set.
C9_DismantlingTwice ==
    [][ \A w \in Threads :
          (/\ RuleUpdate(w) /\ workers[w].solo
           /\ workers[w].payload.event_type = "dismantling"
           /\ RefOf(workers[w]) \in DOMAIN vehicle
           /\ Get(vehicle[RefOf(workers[w])], "status") = "dismantled"
           /\ Has(vehicle[RefOf(workers[w])], "updated_at"))
          => LET v == RefOf(workers[w])
             IN /\ DOMAIN vehicle' = DOMAIN vehicle
                /\ \A x \in DOMAIN vehicle : x # v => vehicle'[x] = vehicle[x]
                /\ DOMAIN vehicle'[v] = DOMAIN vehicle[v]
                /\ \A k \in DOMAIN vehicle[v] \ {"updated_at"} : vehicle'[v][k] = vehicle[v][k]
                /\ vehicle'[v].status = "dismantled"
                /\ Has(vehicle'[v], "updated_at")
                /\ vehicle'[v].updated_at = workers[w].patch.updated_at
                /\ vehicle'[v].updated_at >= vehicle[v].updated_at
                /\ vehicle'[v].updated_at >= workers[w].start
                /\ vehicle'[v].updated_at <= now ]_vars

\* C9 witness: the response to a dismantling event, served alone, on a vehicle
\* for which an earlier dismantling event is stored; the vehicle is
\* dismantled, it is the only vehicle, and its updated_at is later than the
\* first event's time.
C9_Witness ==
    \E w \in Threads :
        /\ Answered(w) /\ EventServed(workers[w]) /\ workers[w].solo
        /\ workers[w].payload.event_type = "dismantling"
        /\ RefOf(workers[w]) \in DOMAIN vehicle
        /\ vehicle[RefOf(workers[w])].status = "dismantled"
        /\ \E e1 \in DOMAIN event :
              /\ e1 < workers[w].id
              /\ event[e1].event_type = "dismantling"
              /\ event[workers[w].id].event_type = "dismantling"
              /\ Get(event[e1], "vehicle_id") = workers[w].payload.vehicle_id
              /\ event[e1].occurred_at < vehicle[RefOf(workers[w])].updated_at
        /\ Cardinality(DOMAIN vehicle) = 1

\* C11: in a returned batch every stored logEvent document whose mutation
\* carried no occurred_at has a server-assigned occurred_at between the time
\* the batch started and the server_time of the response, and every stored
\* logEvent document whose mutation carried occurred_at has that value.
C11_OccurredAtDefault ==
    SyncDone =>
        \A j \in 1..Len(results) :
            (sorted[j].op = "logEvent" /\ results[j].status = "ok") =>
                LET doc == event[OidOf(results[j])]
                IN /\ Has(doc, "occurred_at")
                   /\ IF Has(sorted[j].data, "occurred_at")
                      THEN doc.occurred_at = sorted[j].data.occurred_at
                      ELSE /\ req.start <= doc.occurred_at
                           /\ doc.occurred_at <= resp.server_time

\* C11 witness: a returned batch that stored one event with a default
\* occurred_at later than the start of the batch, and one event that kept an
\* occurred_at earlier than the server's clock.
C11_Witness ==
    /\ SyncDone
    /\ \E i, j \in 1..Len(results) :
          /\ sorted[i].op = "logEvent" /\ results[i].status = "ok"
          /\ ~Has(sorted[i].data, "occurred_at")
          /\ event[OidOf(results[i])].occurred_at > req.start
          /\ sorted[j].op = "logEvent" /\ results[j].status = "ok"
          /\ Has(sorted[j].data, "occurred_at")
          /\ event[OidOf(results[j])].occurred_at < now

\* A payload of a single-record endpoint with an enumerated field set to a
\* value outside the set schemas.py gives for it.
Given(d, k) == Has(d, k) /\ d[k] # None
BadEnum(r) ==
    CASE r.kind = "create_vehicle" ->
            \/ (Given(r.payload, "status") /\ r.payload.status \notin VehicleStatus)
            \/ (Given(r.payload, "engine_condition")
                   /\ r.payload.engine_condition \notin ConditionLevel)
            \/ (Given(r.payload, "body_condition")
                   /\ r.payload.body_condition \notin ConditionLevel)
            \/ (Given(r.payload, "damage_level") /\ r.payload.damage_level \notin DamageLevel)
      [] r.kind = "log_event" ->
            Given(r.payload, "event_type") /\ r.payload.event_type \notin EventType
      [] r.kind = "register_part" ->
            Given(r.payload, "condition") /\ r.payload.condition \notin PartCondition
      [] OTHER -> FALSE

\* C12: a POST /vehicles, /events or /parts whose payload has an out-of-enum
\* value is answered with a client error (422) without any store call.
C12_EnumRejected ==
    \A w \in Threads :
        (Done(w) /\ BadEnum(workers[w])) =>
            (workers[w].resp.status = 422 /\ workers[w].calls = <<>>)

\* C13: every stored vehicle has a status, and it is one of imported, active,
\* dismantled, scrapped, sold, unknown; its condition fields, when the
\* endpoint defaults them, are in their sets too.
C13_StoredVehicleHasStatus ==
    \A v \in DOMAIN vehicle :
        /\ Has(vehicle[v], "status")
        /\ vehicle[v].status \in VehicleStatus

\* The store calls of a request that raised; the results of a batch that
\* came from a store call.
FailedIn(cs) == {i \in 1..Len(cs) : cs[i].failed}
Attempted(r) == r.status # "ignored"

\* C14 as stated: whatever the endpoint, a request with a store call that
\* raised does not return a successful response, and the failed call is
\* not issued again.
C14_StoreFailureIsFatal ==
    /\ (pc = "done" /\ FailedIn(calls) # {}) =>
          /\ resp.status # 200
          /\ Cardinality(FailedIn(calls)) = 1
          /\ Len(calls) \in FailedIn(calls)
    /\ \A w \in Threads :
          (Done(w) /\ FailedIn(workers[w].calls) # {}) =>
             /\ workers[w].resp.status # 200
             /\ Cardinality(FailedIn(workers[w].calls)) = 1
             /\ Len(workers[w].calls) \in FailedIn(workers[w].calls)

\* C14, amended: a store call that raises fails the request for POST /vehicles,
\* /events and /parts (500, no further store call); in POST /sync it becomes
\* the error result of its mutation, the loop goes on with the remaining
\* mutations and the response is successful, with one result per mutation.
\* In every case the failed call is issued once: a single-record request ends
\* at its failed call, and a batch issues one insert for each mutation of a
\* known op it has come to, failed exactly where the result is "error".
C14_StoreFailureFatalExceptInSync ==
    /\ \A w \in Threads :
          (workers[w].pc # "idle" /\ FailedIn(workers[w].calls) # {}) =>
             /\ Done(w)
             /\ workers[w].resp.status = 500
             /\ FailedIn(workers[w].calls) = {Len(workers[w].calls)}
    /\ (req.kind = "sync" /\ (InLoop \/ resp.status = 200)) =>
          LET tried == SelectSeq(results, Attempted)
          IN /\ Len(calls) = Len(tried)
             /\ \A i \in 1..Len(calls) :
                   /\ calls[i].call = "insert"
                   /\ calls[i].failed <=> (tried[i].status = "error")
             /\ \A i \in 1..Len(results) :
                   /\ results[i].op = sorted[i].op
                   /\ Attempted(results[i]) <=> (CollectionOf(sorted[i].op) # "")
    /\ (req.kind = "sync" /\ pc = "done" /\ ~SortRaises(req.mutations)) =>
          /\ resp.status = 200
          /\ Len(resp.results) = Len(req.mutations)
          /\ Len(calls) = Writes(req.mutations, 1)

\* C14 witness: a batch has returned 200 with one result for each of its
\* mutations although its first insert raised, the insert of a later
\* mutation having gone through; meanwhile a POST /events whose update_one
\* raised has failed with 500 after two store calls that went through.
C14_Witness ==
    /\ SyncDone
    /\ Len(resp.results) = Len(req.mutations)
    /\ \E i, j \in 1..Len(calls) :
          /\ i < j /\ calls[i].failed /\ ~calls[j].failed
          /\ results[i].status = "error" /\ results[j].status = "ok"
          /\ OidOf(results[j]) \in DOMAIN event
    /\ \E w \in Threads :
          /\ Done(w) /\ workers[w].resp.status = 500
          /\ Len(workers[w].calls) = 3
          /\ FailedIn(workers[w].calls) = {3}

\* C15: GET /vehicles with a limit outside 1..200 is rejected (422) without
\* any store read; with a limit in 1..200, or with none (50), the store is
\* read once with that limit, and at most that many vehicles are returned.
C15_LimitCheckedBeforeRead ==
    (pc = "done" /\ req.kind = "list_vehicles") =>
        LET lim == IF req.given THEN req.limit ELSE 50
        IN IF lim \in 1..200
           THEN /\ Len(calls) = 1
                /\ calls[1].call = "find_many"
                /\ calls[1].limit = lim
                /\ resp.status = 200 => Len(resp.body) <= lim
           ELSE /\ calls = <<>>
                /\ resp.status = 422
C15_Witness ==
    /\ pc = "done" /\ req.kind = "list_vehicles"
    /\ req.given /\ req.limit = 500
    /\ DOMAIN vehicle # {}
    /\ resp.status = 422 /\ calls = <<>>

\* The status update of thread w, for a dismantling or scrap event naming
\* vehicle v, is applied in this step.
RuleEventOn(w, v) ==
    /\ RuleUpdate(w)
    /\ workers[w].payload.event_type \in {"dismantling", "scrap"}
    /\ RefOf(workers[w]) = v

\* C16: the status of an existing vehicle changes only when the status update
\* of a dismantling or scrap event is applied to it, and then it becomes the
\* status mapped from that event whatever the status was before and whatever
\* occurred_at the event carries; so the status is always the one of the
\* last such event applied, or the creation status when there was none.
C16_LastRuleEventWins ==
    [][ \A v \in DOMAIN vehicle :
          /\ v \in DOMAIN vehicle'
          /\ IF \E w \in Threads : RuleEventOn(w, v)
             THEN \E w \in Threads :
                     /\ RuleEventOn(w, v)
                     /\ vehicle'[v].status = Mapped(workers[w].payload.event_type)
             ELSE Get(vehicle'[v], "status") = Get(vehicle[v], "status") ]_vars

\* C16 witness: a scrap event and then a dismantling event were applied to
\* vehicle 1, the dismantling event carrying the earlier occurred_at, and the
\* vehicle is dismantled.
C16_Witness ==
    /\ 1 \in DOMAIN vehicle /\ vehicle[1].status = "dismantled"
    /\ \E w \in Threads, e1 \in DOMAIN event :
          /\ Answered(w) /\ EventServed(workers[w]) /\ RefOf(workers[w]) = 1
          /\ workers[w].payload.event_type = "dismantling"
          /\ e1 < workers[w].id
          /\ event[e1].event_type = "scrap"
          /\ Get(event[e1], "vehicle_id") = OidStr[1]
          /\ event[workers[w].id].occurred_at < event[e1].occurred_at
          /\ vehicle[1].updated_at = workers[w].patch.updated_at
          /\ \A x \in Threads \ {w} : workers[x].pc = "idle"

\* What the status update of thread w writes.
Written(w) ==
    [status |-> Mapped(workers[w].payload.event_type),
     updated_at |-> workers[w].patch.updated_at]

\* A dismantling and a scrap request for the same vehicle have both returned 200.
BothServed ==
    /\ \A w \in Threads : Answered(w) /\ EventServed(workers[w])
    /\ {workers[w].payload.event_type : w \in Threads} = {"dismantling", "scrap"}
    /\ \A w \in Threads : RefOf(workers[w]) = RefOf(workers[1])
    /\ RefOf(workers[1]) \in DOMAIN vehicle

\* C17: under every interleaving of the steps of requests in flight, a vehicle
\* document changes only in the step that applies one request's status
\* update, and then it holds the status and the updated_at of that request,
\* both; so when a dismantling and a scrap request for the same vehicle have
\* returned, both events are recorded under different ids and the vehicle
\* holds the pair of one of them, the one applied last.
C17_LastUpdateWinsWhole ==
    /\ [][ \A v \in DOMAIN vehicle :
             (v \in DOMAIN vehicle' /\ vehicle'[v] # vehicle[v]) =>
                \E w \in Threads :
                   /\ RuleEventOn(w, v)
                   /\ vehicle'[v].status = Written(w).status
                   /\ vehicle'[v].updated_at = Written(w).updated_at ]_vars
    /\ [](BothServed =>
            LET v == RefOf(workers[1])
            IN /\ \A w \in Threads :
                     /\ workers[w].id \in DOMAIN event
                     /\ event[workers[w].id].event_type = workers[w].payload.event_type
                     /\ event[workers[w].id].vehicle_id = workers[w].payload.vehicle_id
               /\ workers[1].id # workers[2].id
               /\ vehicle[v].status \in {"dismantled", "scrapped"}
               /\ \E w \in Threads :
                     /\ vehicle[v].status = Written(w).status
                     /\ vehicle[v].updated_at = Written(w).updated_at)

\* C17 witness: both requests have returned; the dismantling request read the
\* clock for its update before the scrap request did, its update was applied
\* last, and the vehicle holds its status with its, the earlier, updated_at.
C17_Witness ==
    /\ BothServed
    /\ \E a, b \in Threads :
          /\ workers[a].payload.event_type = "dismantling"
          /\ workers[b].payload.event_type = "scrap"
          /\ workers[a].patch.updated_at < workers[b].patch.updated_at
          /\ vehicle[RefOf(workers[a])].status = "dismantled"
          /\ vehicle[RefOf(workers[a])].updated_at = workers[a].patch.updated_at

\* C18: no request changes or removes a stored event: every step keeps every
\* event document present with exactly the fields it was inserted with, so
\* the event collection only grows.
C18_EventsImmutable ==
    [][ \A e \in DOMAIN event : e \in DOMAIN event' /\ event'[e] = event[e] ]_vars

\* C18 witness: a POST /events has applied its status update to vehicle 1
\* after an earlier event for that vehicle was stored; the earlier event has
\* neither status nor updated_at.
C18_Witness ==
    /\ 1 \in DOMAIN vehicle /\ Has(vehicle[1], "updated_at")
    /\ \E w \in Threads, e1 \in DOMAIN event :
          /\ Answered(w) /\ EventServed(workers[w]) /\ RefOf(workers[w]) = 1
          /\ workers[w].payload.event_type \in {"dismantling", "scrap"}
          /\ e1 < workers[w].id
          /\ Get(event[e1], "vehicle_id") = OidStr[1]
          /\ ~Has(event[e1], "status") /\ ~Has(event[e1], "updated_at")
          /\ event[e1].occurred_at <= vehicle[1].updated_at

\* The ids that the ok results of the batch report.
OkResults == {i \in 1..Len(results) : results[i].status = "ok"}
OkIds == {OidOf(results[i]) : i \in OkResults}

\* C19: each step of the loop that reports "ok" has inserted exactly one
\* document, into the collection of its op and under the id it reports, and
\* changed nothing else; a step that reports "ignored" or "error" has left
\* the store as it was.  Hence the ok results carry pairwise different ids,
\* all of documents now in the store and newer than every other document, and
\* a batch adds as many documents as it has ok results.
C19_ResultsMirrorStore ==
    /\ [](req.kind = "sync" =>
            /\ Cardinality(OkIds) = Cardinality(OkResults)
            /\ OkIds \subseteq Docs
            /\ \A i \in OkIds, j \in Docs \ OkIds : j < i)
    /\ [][ (req.kind = "sync" /\ Len(results') = Len(results) + 1) =>
              LET r == results'[Len(results')]
              IN IF r.status = "ok"
                 THEN LET id == OidOf(r)
                      IN /\ id \notin Docs
                         /\ DOMAIN vehicle' =
                               DOMAIN vehicle \cup (IF r.op = "createVehicle" THEN {id} ELSE {})
                         /\ DOMAIN event' =
                               DOMAIN event \cup (IF r.op = "logEvent" THEN {id} ELSE {})
                         /\ DOMAIN part' =
                               DOMAIN part \cup (IF r.op = "registerPart" THEN {id} ELSE {})
                         /\ \A x \in DOMAIN vehicle : vehicle'[x] = vehicle[x]
                         /\ \A x \in DOMAIN event : event'[x] = event[x]
                         /\ \A x \in DOMAIN part : part'[x] = part[x]
                 ELSE /\ r.status \in {"ignored", "error"}
                      /\ store' = store ]_vars
C19_Witness ==
    /\ SyncDone
    /\ Len(results) = 2
    /\ {results[i].status : i \in 1..2} = {"ok", "error"}
    /\ NumDocs = 2
    /\ OkIds = {2}

\* The documents of a collection that are equal to d.
Copies(coll, d) == Cardinality({x \in DOMAIN coll : coll[x] = d})
CollectionNow(op) ==
    CASE op = "createVehicle" -> vehicle
      [] op = "logEvent" -> event
      [] OTHER -> part

\* C20: a mutation that is applied without a store failure is inserted as a
\* new document under a fresh id even when the store already holds an equal
\* document from an earlier submission (same data, client_id and
\* client_timestamp), so a batch submitted twice is stored twice; and between
\* two requests nothing of the first is left but the store and the clock.
C20_NoDeduplication ==
    /\ [](pc = "idle" =>
            /\ req = NoRequest /\ resp = NoResponse
            /\ sorted = <<>> /\ results = <<>> /\ calls = <<>>)
    /\ [][ (req.kind = "sync" /\ Len(results') = Len(results) + 1) =>
              LET m == sorted[Len(results) + 1]
                  r == results'[Len(results')]
                  before == CollectionNow(m.op)
                  after == CASE m.op = "createVehicle" -> vehicle'
                             [] m.op = "logEvent" -> event'
                             [] OTHER -> part'
              IN (m.op \in KnownOps /\ r.status # "error") =>
                    /\ r.status = "ok"
                    /\ OidOf(r) \notin Docs
                    /\ OidOf(r) \in DOMAIN after
                    /\ Copies(after, after[OidOf(r)]) = Copies(before, after[OidOf(r)]) + 1
                    /\ (m.op # "logEvent" \/ Has(m.data, "occurred_at")) =>
                          after[OidOf(r)] = m.data ]_vars
C20_Witness ==
    /\ SyncDone
    /\ Len(req.mutations) = 1 /\ req.mutations[1].op = "createVehicle"
    /\ results[1].status = "ok" /\ OidOf(results[1]) = 2
    /\ DOMAIN vehicle = {1, 2}
    /\ vehicle[1] = req.mutations[1].data /\ vehicle[2] = req.mutations[1].data
====
